---- MODULE Spec2Model ----
(***************************************************************************)
(* Model of inventory_system.py: a module-level ordered mapping            *)
(* stock_data (item name -> numeric quantity), mutated by add_item and     *)
(* remove_item, queried by get_qty and check_low_items, and persisted to   *)
(* a JSON file by save_data / load_data.                                   *)
(*                                                                         *)
(* Python values are records [t, s, n]: t is the type tag, s the text of   *)
(* a str, n the numeric value of an int or bool (True = 1, False = 0).     *)
(* Float quantities are represented by integers.  A Python dict is a       *)
(* sequence of [k, v] entries with pairwise distinct keys, in insertion    *)
(* order.  JSON values in the file are records [t, n] with their own tags  *)
(* ("number", "true", "false", "string", "null").                          *)
(***************************************************************************)
EXTENDS Integers, Sequences, FiniteSets, TLC

VARIABLES stock_data, file, last, saved

vars == <<stock_data, file, last, saved>>

\* ---------------------------------------------------------------- bounds
MaxQty == 2          \* largest quantity add_item is allowed to reach
MaxArg == 2          \* largest qty argument passed to add_item / remove_item
DefaultThreshold == 5

Items == {"apple", "banana"}

\* ---------------------------------------------------------- Python values
PyInt(n) == [t |-> "int", s |-> "", n |-> n]
PyBool(b) == [t |-> "bool", s |-> "", n |-> b]
PyStr(s) == [t |-> "str", s |-> s, n |-> 0]
PyNone == [t |-> "none", s |-> "", n |-> 0]

\* isinstance(v, str)
IsStr(v) == v.t = "str"

\* isinstance(v, (int, float)): bool is a subclass of int
IsNumber(v) == v.t \in {"int", "bool"}

\* ------------------------------------------------------------ dict helpers
Keys(d) == {d[i].k : i \in 1..Len(d)}

IndexOf(d, k) == CHOOSE i \in 1..Len(d) : d[i].k = k

\* d.get(k, default)
DictGet(d, k, default) == IF k \in Keys(d) THEN d[IndexOf(d, k)].v ELSE default

\* d[k] = v : an existing key keeps its position, a new key goes last
DictSet(d, k, v) ==
    IF k \in Keys(d) THEN [d EXCEPT ![IndexOf(d, k)].v = v]
    ELSE Append(d, [k |-> k, v |-> v])

\* del d[k]
DictDel(d, k) == SelectSeq(d, LAMBDA e : e.k # k)

\* -------------------------------------------------------------- add_item
NoLogs == [given |-> FALSE, list |-> <<>>]
LogList(l) == [given |-> TRUE, list |-> l]

\* f"{timestamp}: Added {qty} of {item}" (the timestamp is left out)
LogEntry(item, qty) == [qty |-> qty.n, item |-> item.s]

\* add_item with the entry assigned qty instead of current + qty
add_item_overwrite(d, item, qty, logs) ==
    IF ~IsStr(item) \/ item.s = ""
    THEN [exc |-> "TypeError", stock |-> d, logs |-> logs]
    ELSE IF ~IsNumber(qty)
    THEN [exc |-> "TypeError", stock |-> d, logs |-> logs]
    ELSE IF qty.n < 0
    THEN [exc |-> "ValueError", stock |-> d, logs |-> logs]
    ELSE [exc |-> "none",
          stock |-> DictSet(d, item.s, PyInt(qty.n)),
          logs |-> IF logs.given
                   THEN LogList(Append(logs.list, LogEntry(item, qty)))
                   ELSE logs]

add_item(d, item, qty, logs) ==
    IF ~IsStr(item) \/ item.s = ""
    THEN [exc |-> "TypeError", stock |-> d, logs |-> logs]
    ELSE IF ~IsNumber(qty)
    THEN [exc |-> "TypeError", stock |-> d, logs |-> logs]
    ELSE IF qty.n < 0
    THEN [exc |-> "ValueError", stock |-> d, logs |-> logs]
    ELSE LET current == DictGet(d, item.s, PyInt(0))
         IN  [exc |-> "none",
              stock |-> DictSet(d, item.s, PyInt(current.n + qty.n)),
              logs |-> IF logs.given
                       THEN LogList(Append(logs.list, LogEntry(item, qty)))
                       ELSE logs]

\* ------------------------------------------------------------ remove_item
\* the argument checks remove_item makes before it looks at the inventory:
\* the exception raised, or "proceed" when all pass
RemoveArgError(item, qty) ==
    IF ~IsStr(item) \/ item.s = "" THEN "TypeError"
    ELSE IF ~IsNumber(qty) THEN "TypeError"
    ELSE IF qty.n <= 0 THEN "ValueError"
    ELSE "proceed"

\* remove_item that deletes the entry only when the rest is below zero
remove_item_keeps_zero(d, item, qty) ==
    IF RemoveArgError(item, qty) # "proceed"
    THEN [exc |-> RemoveArgError(item, qty), stock |-> d]
    ELSE IF item.s \notin Keys(d)
    THEN [exc |-> "KeyError", stock |-> d]
    ELSE IF DictGet(d, item.s, PyNone).n < qty.n
    THEN [exc |-> "ValueError", stock |-> d]
    ELSE LET left == PyInt(DictGet(d, item.s, PyNone).n - qty.n)
         IN  [exc |-> "none",
              stock |-> IF left.n < 0 THEN DictDel(d, item.s)
                        ELSE DictSet(d, item.s, left)]

\* remove_item that reads the stock with get(item, 0) instead of testing
\* membership, so an absent item is reported as short of stock
remove_item_no_lookup(d, item, qty) ==
    IF RemoveArgError(item, qty) # "proceed"
    THEN [exc |-> RemoveArgError(item, qty), stock |-> d]
    ELSE IF DictGet(d, item.s, PyInt(0)).n < qty.n
    THEN [exc |-> "ValueError", stock |-> d]
    ELSE LET left == PyInt(DictGet(d, item.s, PyInt(0)).n - qty.n)
         IN  [exc |-> "none",
              stock |-> IF left.n <= 0 THEN DictDel(d, item.s)
                        ELSE DictSet(d, item.s, left)]

\* remove_item without the test for sufficient stock
remove_item_unchecked(d, item, qty) ==
    IF RemoveArgError(item, qty) # "proceed"
    THEN [exc |-> RemoveArgError(item, qty), stock |-> d]
    ELSE IF item.s \notin Keys(d)
    THEN [exc |-> "KeyError", stock |-> d]
    ELSE LET left == PyInt(DictGet(d, item.s, PyNone).n - qty.n)
         IN  [exc |-> "none",
              stock |-> IF left.n <= 0 THEN DictDel(d, item.s)
                        ELSE DictSet(d, item.s, left)]

remove_item(d, item, qty) ==
    IF RemoveArgError(item, qty) # "proceed"
    THEN [exc |-> RemoveArgError(item, qty), stock |-> d]
    ELSE IF item.s \notin Keys(d)
    THEN [exc |-> "KeyError", stock |-> d]
    ELSE IF DictGet(d, item.s, PyNone).n < qty.n
    THEN [exc |-> "ValueError", stock |-> d]
    ELSE LET left == PyInt(DictGet(d, item.s, PyNone).n - qty.n)
         IN  [exc |-> "none",
              stock |-> IF left.n <= 0 THEN DictDel(d, item.s)
                        ELSE DictSet(d, item.s, left)]

\* ---------------------------------------------------------------- get_qty
get_qty(d, item) ==
    IF ~IsStr(item) \/ item.s = ""
    THEN [exc |-> "TypeError", ret |-> PyNone]
    ELSE [exc |-> "none", ret |-> DictGet(d, item.s, PyInt(0))]

\* -------------------------------------------------------- check_low_items
\* [name for name, qty in d.items() if qty < threshold]
\* the comprehension with qty <= threshold
RECURSIVE LowNames_le(_, _)
LowNames_le(d, threshold) ==
    IF d = <<>> THEN <<>>
    ELSE IF Head(d).v.n <= threshold.n
         THEN <<Head(d).k>> \o LowNames_le(Tail(d), threshold)
         ELSE LowNames_le(Tail(d), threshold)

RECURSIVE LowNames(_, _)
LowNames(d, threshold) ==
    IF d = <<>> THEN <<>>
    ELSE IF Head(d).v.n < threshold.n
         THEN <<Head(d).k>> \o LowNames(Tail(d), threshold)
         ELSE LowNames(Tail(d), threshold)

check_low_items(d, threshold) ==
    IF ~IsNumber(threshold)
    THEN [exc |-> "TypeError", names |-> <<>>]
    ELSE [exc |-> "none", names |-> LowNames(d, threshold)]

\* ------------------------------------------------------------------- JSON
JsonNumber(n) == [t |-> "number", n |-> n]
JsonTrue == [t |-> "true", n |-> 0]
JsonFalse == [t |-> "false", n |-> 0]
JsonString == [t |-> "string", n |-> 0]
JsonNull == [t |-> "null", n |-> 0]

\* the encoder's mapping of a Python value to a JSON value
ToJson(v) ==
    CASE v.t = "int" -> JsonNumber(v.n)
      [] v.t = "bool" -> (IF v.n = 1 THEN JsonTrue ELSE JsonFalse)
      [] v.t = "str" -> JsonString
      [] OTHER -> JsonNull

\* the decoder's mapping of a JSON value to a Python value
FromJson(j) ==
    CASE j.t = "number" -> PyInt(j.n)
      [] j.t = "true" -> PyBool(1)
      [] j.t = "false" -> PyBool(0)
      [] j.t = "string" -> PyStr("text")
      [] OTHER -> PyNone

AbsentFile == [kind |-> "absent", pairs |-> <<>>]
MalformedFile == [kind |-> "malformed", pairs |-> <<>>]
NonObjectFile == [kind |-> "nonobject", pairs |-> <<>>]
ObjectFile(pairs) == [kind |-> "object", pairs |-> pairs]

\* json.dump(stock_data, f, ...): one member per entry, in dict order
json_dump(d) ==
    ObjectFile([i \in 1..Len(d) |-> [k |-> d[i].k, j |-> ToJson(d[i].v)]])

\* open(file, "r") and json.load(f)
json_load(f) ==
    CASE f.kind = "absent" ->
            [exc |-> "FileNotFoundError", isdict |-> FALSE, data |-> <<>>]
      [] f.kind = "malformed" ->
            [exc |-> "JSONDecodeError", isdict |-> FALSE, data |-> <<>>]
      [] f.kind = "nonobject" ->
            [exc |-> "none", isdict |-> FALSE, data |-> <<>>]
      [] OTHER ->
            [exc |-> "none", isdict |-> TRUE,
             data |-> [i \in 1..Len(f.pairs) |->
                          [k |-> f.pairs[i].k, v |-> FromJson(f.pairs[i].j)]]]

\* -------------------------------------------------------------- load_data
\* the loop over data.items(); JSON member names are always str, so the
\* str(k) coercion never changes a key
RECURSIVE LoadEntries(_, _)
LoadEntries(d, data) ==
    IF data = <<>> THEN d
    ELSE LoadEntries(IF IsNumber(Head(data).v)
                     THEN DictSet(d, Head(data).k, Head(data).v)
                     ELSE d,
                     Tail(data))

\* load_data with stock_data.clear() after the loop instead of before it
load_data_clear_last(d, f) ==
    LET r == json_load(f)
    IN  IF r.exc = "FileNotFoundError"
        THEN [exc |-> "none", stock |-> d, level |-> "info"]
        ELSE IF r.exc = "JSONDecodeError"
        THEN [exc |-> "none", stock |-> d, level |-> "error"]
        ELSE IF ~r.isdict
        THEN [exc |-> "none", stock |-> d, level |-> "error"]
        ELSE [exc |-> "none", stock |-> <<>>, level |-> "none"]

\* load_data with stock_data.clear() before the file is opened
load_data_clear_first(d, f) ==
    LET r == json_load(f)
    IN  IF r.exc = "FileNotFoundError"
        THEN [exc |-> "none", stock |-> <<>>, level |-> "info"]
        ELSE IF r.exc = "JSONDecodeError"
        THEN [exc |-> "none", stock |-> <<>>, level |-> "error"]
        ELSE IF ~r.isdict
        THEN [exc |-> "none", stock |-> <<>>, level |-> "error"]
        ELSE [exc |-> "none", stock |-> LoadEntries(<<>>, r.data),
              level |-> "none"]

load_data(d, f) ==
    LET r == json_load(f)
    IN  IF r.exc = "FileNotFoundError"
        THEN [exc |-> "none", stock |-> d, level |-> "info"]
        ELSE IF r.exc = "JSONDecodeError"
        THEN [exc |-> "none", stock |-> d, level |-> "error"]
        ELSE IF ~r.isdict
        THEN [exc |-> "none", stock |-> d, level |-> "error"]
        ELSE [exc |-> "none", stock |-> LoadEntries(<<>>, r.data),
              level |-> IF \E i \in 1..Len(r.data) : ~IsNumber(r.data[i].v)
                        THEN "warning" ELSE "none"]

\* -------------------------------------------------------------- save_data
\* io is what the file layer does: "ok", "open_fails" (OSError from open,
\* the file is untouched) or "write_fails" (OSError after open truncated
\* the file, which is left with incomplete JSON text)
IoOutcomes == {"ok", "open_fails", "write_fails"}

save_data(d, f, io) ==
    CASE io = "ok" -> [exc |-> "none", file |-> json_dump(d), level |-> "info"]
      [] io = "open_fails" -> [exc |-> "none", file |-> f, level |-> "error"]
      [] OTHER -> [exc |-> "none", file |-> MalformedFile, level |-> "error"]

\* ----------------------------------------------------------------- state
\* stock_data : the module-level dict
\* file       : the content of the inventory file
\* last       : the most recent call: its arguments, the inventory before
\*              it (pre), the exception it raised, what it returned, and
\*              for load_data whether it directly followed a completed
\*              save_data (afterSave)
\* saved      : TRUE iff the most recent call was a save_data whose write
\*              completed
NoCall ==
    [op |-> "none", item |-> PyNone, qty |-> PyNone, pre |-> <<>>,
     exc |-> "none", ret |-> PyNone, names |-> <<>>,
     logsIn |-> NoLogs, logsOut |-> NoLogs, io |-> "none", level |-> "none",
     afterSave |-> FALSE]

ValidItems == {PyStr(i) : i \in Items}
ValidQtys == {PyInt(n) : n \in 0..MaxArg}
ItemArgs == ValidItems \cup {PyStr(""), PyInt(123)}
QtyArgs == ValidQtys \cup {PyInt(-1), PyStr("ten")}
LogArgs == {NoLogs, LogList(<<[qty |-> 1, item |-> "apple"]>>)}
ThresholdArgs == {PyInt(MaxArg), PyInt(DefaultThreshold), PyStr("five")}

\* files that may exist at the path before the program first touches it
FileValues == {JsonNumber(-1), JsonNumber(1), JsonTrue, JsonString}
FileMembers == [k : Items, j : FileValues]
SmallFiles ==
    {AbsentFile, MalformedFile, NonObjectFile, ObjectFile(<<>>)} \cup
    {ObjectFile(<<m>>) : m \in FileMembers}
InitialFiles ==
    SmallFiles \cup
    {ObjectFile(<<p[1], p[2]>>) : p \in
        {q \in FileMembers \X FileMembers : q[1].k # q[2].k}}

Init ==
    /\ stock_data = <<>>
    /\ file \in SmallFiles
    /\ last = NoCall
    /\ saved = FALSE

AddItemWith(items, qtys, logargs) ==
    \E item \in items, qty \in qtys, logs \in logargs :
        LET r == add_item(stock_data, item, qty, logs)
        IN  /\ r.exc = "none" => DictGet(r.stock, item.s, PyInt(0)).n <= MaxQty
            /\ stock_data' = r.stock
            /\ last' = [NoCall EXCEPT !.op = "add_item", !.item = item,
                            !.qty = qty, !.pre = stock_data, !.exc = r.exc,
                            !.logsIn = logs, !.logsOut = r.logs]
            /\ saved' = FALSE
            /\ UNCHANGED file

RemoveItemWith(items, qtys) ==
    \E item \in items, qty \in qtys :
        LET r == remove_item(stock_data, item, qty)
        IN  /\ stock_data' = r.stock
            /\ last' = [NoCall EXCEPT !.op = "remove_item", !.item = item,
                            !.qty = qty, !.pre = stock_data, !.exc = r.exc]
            /\ saved' = FALSE
            /\ UNCHANGED file

AddItem == AddItemWith(ItemArgs, QtyArgs, LogArgs)

RemoveItem == RemoveItemWith(ItemArgs, QtyArgs)

GetQty ==
    \E item \in ItemArgs :
        LET r == get_qty(stock_data, item)
        IN  /\ last' = [NoCall EXCEPT !.op = "get_qty", !.item = item,
                            !.pre = stock_data, !.exc = r.exc, !.ret = r.ret]
            /\ saved' = FALSE
            /\ UNCHANGED <<stock_data, file>>

CheckLowItems ==
    \E threshold \in ThresholdArgs :
        LET r == check_low_items(stock_data, threshold)
        IN  /\ last' = [NoCall EXCEPT !.op = "check_low_items",
                            !.qty = threshold, !.pre = stock_data,
                            !.exc = r.exc, !.names = r.names]
            /\ saved' = FALSE
            /\ UNCHANGED <<stock_data, file>>

LoadData ==
    LET r == load_data(stock_data, file)
    IN  /\ stock_data' = r.stock
        /\ last' = [NoCall EXCEPT !.op = "load_data", !.pre = stock_data,
                        !.exc = r.exc, !.level = r.level,
                        !.afterSave = saved]
        /\ saved' = FALSE
        /\ UNCHANGED file

SaveData ==
    \E io \in IoOutcomes :
        LET r == save_data(stock_data, file, io)
        IN  /\ file' = r.file
            /\ last' = [NoCall EXCEPT !.op = "save_data", !.pre = stock_data,
                            !.exc = r.exc, !.io = io, !.level = r.level]
            /\ saved' = (io = "ok")
            /\ UNCHANGED stock_data

\* The in-memory operations with every kind of argument, over inventories
\* built by add_item / remove_item or loaded from a file.
Next ==
    \/ AddItem
    \/ RemoveItem
    \/ GetQty
    \/ CheckLowItems
    \/ LoadData

Spec == Init /\ [][Next]_vars

\* Persistence: save_data and load_data interleaved with well-formed
\* add_item / remove_item calls, starting from any initial file.
AddStock == AddItemWith(ValidItems, ValidQtys, {NoLogs})

RemoveStock == RemoveItemWith(ValidItems, ValidQtys)

FileInit ==
    /\ stock_data = <<>>
    /\ file \in InitialFiles
    /\ last = NoCall
    /\ saved = FALSE

FileNext ==
    \/ AddStock
    \/ RemoveStock
    \/ LoadData
    \/ SaveData

FileSpec == FileInit /\ [][FileNext]_vars
\* ================================================================ claims
Qty(d, k) == get_qty(d, PyStr(k)).ret.n

ValidItem(item) == IsStr(item) /\ item.s # ""

\* C1: no entry of the inventory ever holds a quantity that is zero or
\* negative, and save_data never writes such an entry to the file.
NoZeroOrNegativeEntry ==
    /\ \A i \in 1..Len(stock_data) : stock_data[i].v.n > 0
    /\ (last.op = "save_data" /\ last.io = "ok") =>
          \A i \in 1..Len(file.pairs) : FromJson(file.pairs[i].j).n > 0

\* C2: add_item with a non-empty item name and a numeric qty >= 0 succeeds;
\* afterwards get_qty(item) is its value before the call plus qty (0 for an
\* absent item), and every other item is as it was.
AddItemAddsExactlyQty ==
    (/\ last.op = "add_item"
     /\ ValidItem(last.item)
     /\ IsNumber(last.qty) /\ last.qty.n >= 0) =>
        /\ last.exc = "none"
        /\ Qty(stock_data, last.item.s) = Qty(last.pre, last.item.s) + last.qty.n
        /\ last.item.s \in Keys(stock_data)
        /\ Keys(stock_data) \ {last.item.s} = Keys(last.pre) \ {last.item.s}
        /\ \A k \in Keys(last.pre) \ {last.item.s} :
              DictGet(stock_data, k, PyNone) = DictGet(last.pre, k, PyNone)

AddItemAddsExactlyQtyWitness ==
    /\ last.op = "add_item" /\ last.exc = "none"
    /\ last.qty.n > 0
    /\ Len(last.pre) = 2
    /\ Qty(last.pre, last.item.s) > 0
    /\ Qty(stock_data, last.item.s) = Qty(last.pre, last.item.s) + last.qty.n

\* C3: remove_item of 0 < qty <= s from a present item with stock s succeeds
\* and leaves get_qty(item) = s - qty; when qty = s the key is deleted, so
\* the item is never left with a zero or negative quantity.
RemoveItemDecrementsOrDeletes ==
    (/\ last.op = "remove_item"
     /\ ValidItem(last.item)
     /\ last.item.s \in Keys(last.pre)
     /\ IsNumber(last.qty)
     /\ 0 < last.qty.n
     /\ last.qty.n <= Qty(last.pre, last.item.s)) =>
        /\ last.exc = "none"
        /\ Qty(stock_data, last.item.s) = Qty(last.pre, last.item.s) - last.qty.n
        /\ last.qty.n = Qty(last.pre, last.item.s) =>
              last.item.s \notin Keys(stock_data)
        /\ last.item.s \in Keys(stock_data) => Qty(stock_data, last.item.s) > 0

RemoveItemDecrementsOrDeletesWitness ==
    /\ last.op = "remove_item" /\ last.exc = "none"
    /\ last.qty.n = Qty(last.pre, last.item.s)
    /\ last.item.s \in Keys(last.pre)
    /\ last.item.s \notin Keys(stock_data)
    /\ Len(stock_data) = 1

\* C4 as stated: remove_item on an absent item signals KeyError for every
\* qty argument and leaves the inventory unchanged.
RemoveAbsentAlwaysKeyError ==
    (/\ last.op = "remove_item"
     /\ ValidItem(last.item)
     /\ last.item.s \notin Keys(last.pre)) =>
        /\ last.exc = "KeyError"
        /\ stock_data = last.pre

\* C4 amended: remove_item on an absent item signals KeyError for every
\* numeric qty > 0, TypeError for a non-numeric qty and ValueError for a
\* numeric qty <= 0, and in each case leaves the inventory unchanged.
RemoveAbsentKeyErrorForPositiveQty ==
    (/\ last.op = "remove_item"
     /\ ValidItem(last.item)
     /\ last.item.s \notin Keys(last.pre)) =>
        /\ stock_data = last.pre
        /\ last.exc = IF ~IsNumber(last.qty) THEN "TypeError"
                      ELSE IF last.qty.n <= 0 THEN "ValueError"
                      ELSE "KeyError"

RemoveAbsentKeyErrorWitness ==
    /\ last.op = "remove_item" /\ last.exc = "KeyError"
    /\ ValidItem(last.item)
    /\ last.item.s \notin Keys(last.pre)
    /\ last.qty.n > 0
    /\ Len(last.pre) = 1
    /\ stock_data = last.pre

\* C5: remove_item on a present item with qty greater than its stock
\* signals ValueError and leaves the whole inventory unchanged.
RemoveTooMuchValueError ==
    (/\ last.op = "remove_item"
     /\ ValidItem(last.item)
     /\ last.item.s \in Keys(last.pre)
     /\ IsNumber(last.qty)
     /\ last.qty.n > Qty(last.pre, last.item.s)) =>
        /\ last.exc = "ValueError"
        /\ stock_data = last.pre

RemoveTooMuchValueErrorWitness ==
    /\ last.op = "remove_item" /\ last.exc = "ValueError"
    /\ last.item.s \in Keys(last.pre)
    /\ Qty(last.pre, last.item.s) > 0
    /\ last.qty.n > Qty(last.pre, last.item.s)
    /\ Len(last.pre) = 2
    /\ stock_data = last.pre

\* C6: a load_data that directly follows a completed save_data of the same
\* file leaves the inventory equal to the one saved: same keys, same value
\* for each key, same order.
SaveLoadRoundTrip ==
    (last.op = "load_data" /\ last.afterSave) => stock_data = last.pre

SaveLoadRoundTripWitness ==
    /\ last.op = "load_data" /\ last.afterSave
    /\ Len(stock_data) = 2
    /\ stock_data[1].k = "banana"
    /\ stock_data[1].v.n > 0
    /\ stock_data = last.pre

\* the members of a JSON object whose value is a JSON number, decoded
NumericMembers(pairs) ==
    LET keep == SelectSeq(pairs, LAMBDA m : m.j.t = "number")
    IN  [i \in 1..Len(keep) |-> [k |-> keep[i].k, v |-> PyInt(keep[i].j.n)]]

\* C7: after load_data of a file whose JSON root is an object, the inventory
\* holds exactly the file's members whose value is numeric; members with a
\* non-numeric value are skipped and nothing from before the call survives.
LoadKeepsExactlyNumericMembers ==
    (last.op = "load_data" /\ file.kind = "object") =>
        stock_data = NumericMembers(file.pairs)

\* C8: load_data returns normally and leaves the inventory exactly as it
\* was when the file is missing, is malformed JSON, or has a root that is
\* not an object.
LoadFailureLeavesInventory ==
    (last.op = "load_data"
     /\ file.kind \in {"absent", "malformed", "nonobject"}) =>
        /\ last.exc = "none"
        /\ stock_data = last.pre

LoadFailureLeavesInventoryWitness ==
    /\ last.op = "load_data"
    /\ file.kind = "malformed"
    /\ Len(last.pre) = 2
    /\ stock_data = last.pre

\* C9: for a numeric threshold check_low_items returns exactly the names
\* whose quantity is strictly below the threshold, each once, in the
\* inventory's order, and leaves the inventory unchanged.
CheckLowItemsExact ==
    (last.op = "check_low_items" /\ IsNumber(last.qty)) =>
        /\ last.exc = "none"
        /\ {last.names[i] : i \in 1..Len(last.names)} =
              {k \in Keys(stock_data) : Qty(stock_data, k) < last.qty.n}
        /\ \A i, j \in 1..Len(last.names) :
              i < j => IndexOf(stock_data, last.names[i])
                          < IndexOf(stock_data, last.names[j])
        /\ stock_data = last.pre

CheckLowItemsExactWitness ==
    /\ last.op = "check_low_items" /\ last.exc = "none"
    /\ Len(stock_data) = 2
    /\ Qty(stock_data, stock_data[1].k) = last.qty.n
    /\ last.names = <<stock_data[2].k>>

\* C10: add_item raises ValueError when qty is negative or when item is the
\* empty string, and leaves the inventory and the supplied log list as
\* they were.
AddItemRejectsWithValueError ==
    (/\ last.op = "add_item"
     /\ \/ last.item = PyStr("") /\ IsNumber(last.qty) /\ last.qty.n >= 0
        \/ ValidItem(last.item) /\ IsNumber(last.qty) /\ last.qty.n < 0) =>
        /\ last.exc = "ValueError"
        /\ stock_data = last.pre
        /\ last.logsOut = last.logsIn
====
